---- MODULE Spec2Model ----
(***************************************************************************)
(* Order coordinator (src/src/orders/orders.service.ts): OrdersService     *)
(* with its store (the order table and its OrderItem / OrderReceipt        *)
(* children), the remote product validator and the remote payment gateway. *)
(* Each public method of OrdersService is one action that runs the whole   *)
(* method; `last` holds what the most recent call threw or returned.       *)
(***************************************************************************)
EXTENDS Integers, Sequences, FiniteSets, TLC

VARIABLES orders, quoted, catalog, now, last, pending

vars == <<orders, quoted, catalog, now, last, pending>>

(* ------------------------------ bounds --------------------------------- *)
MaxOrders == 1
MaxListed == 3
MaxItems == 2
MaxQty == 2
MaxClock == 1
MaxReceipts == 2
MaxPage == 3
MaxLimit == 2
MaxPending == 1

(* ------------------------- domains of the inputs ----------------------- *)
Products == {"p1", "p2"}
Prices == {5, 10}
Names == [p1 |-> "A", p2 |-> "B"]
Statuses == {"PENDING", "PAID", "DELIVERED", "CANCELLED"}
OrderIds == 1..(MaxOrders + 1)
LineItems == [productId : Products, quantity : 1..MaxQty]
CreateOrderDtos == UNION {[1..n -> LineItems] : n \in 1..MaxItems}
PaidOrderDtos ==
  {[orderId |-> id, stripePaymentId |-> c[1], receiptUrl |-> c[2]] :
     id \in OrderIds, c \in {<<"ch_1", "url_1">>, <<"ch_2", "url_2">>}}
RemoteOutcomes == {"reply", "error"}

Undefined == [undefined |-> TRUE]
Null == <<>>
NoError == [kind |-> "none"]

BAD_REQUEST == 400
NOT_FOUND == 404

(* ------------------------------ helpers -------------------------------- *)
RECURSIVE SeqMap(_, _)
SeqMap(F(_), s) ==
  IF s = <<>> THEN <<>> ELSE <<F(Head(s))>> \o SeqMap(F, Tail(s))

RECURSIVE SeqFilter(_, _)
SeqFilter(P(_), s) ==
  IF s = <<>> THEN <<>>
  ELSE (IF P(Head(s)) THEN <<Head(s)>> ELSE <<>>) \o SeqFilter(P, Tail(s))

(* Array.prototype.find on the validator's reply: the first product whose  *)
(* id is `id`, or undefined                                                 *)
RECURSIVE Find(_, _)
Find(products, id) ==
  IF products = <<>> THEN Undefined
  ELSE IF Head(products).id = id THEN Head(products)
  ELSE Find(Tail(products), id)

RECURSIVE Distinct(_)
Distinct(s) ==
  IF s = <<>> THEN <<>>
  ELSE LET h == Head(s)
           Other(x) == x # h
       IN <<h>> \o Distinct(SeqFilter(Other, Tail(s)))

(* mutant: Math.floor in place of Math.ceil *)
Floor(a, b) == a \div b

(* Math.ceil(a / b) for a >= 0, b >= 1 *)
Ceil(a, b) == IF a % b = 0 THEN a \div b ELSE (a \div b) + 1

(* ----------------------- the remote collaborators ---------------------- *)
(* validate_products: one {id, name, price} per requested id that exists   *)
ValidateProducts(cat, productIds) ==
  LET Known(p) == p \in DOMAIN cat
      Rec(p) == [id |-> p, name |-> Names[p], price |-> cat[p]]
  IN SeqMap(Rec, SeqFilter(Known, Distinct(productIds)))

(* create.payment.session: the gateway's session descriptor *)
PaymentSession(request) ==
  [url |-> <<"checkout", request.orderId>>, currency |-> request.currency,
   lines |-> Len(request.items)]

(* ------------------------------ errors --------------------------------- *)
RpcException(status, message) ==
  [kind |-> "RpcException", status |-> status, message |-> message]
RemoteError == [kind |-> "RemoteError", message |-> "upstream unavailable"]
TypeError(prop) ==
  [kind |-> "TypeError",
   message |-> <<"Cannot read properties of undefined (reading '", prop, "')">>]
RecordNotFound ==
  [kind |-> "PrismaClientKnownRequestError", code |-> "P2025",
   message |-> "Record to update not found."]

(* ------------------------------ the store ------------------------------ *)
OrderDefaults ==
  [status |-> "PENDING", paid |-> FALSE, paidAt |-> Null,
   stripeChargeId |-> "null", OrderReceipt |-> <<>>]

NextId(table) == Len(table) + 1

Exists(id) == id \in DOMAIN orders

(* mutant: the parent row inserted alone, its items left to a later write *)
OrderCreateRowOnly(table, data) ==
  Append(table,
         [id |-> Len(table) + 1, status |-> "PENDING", paid |-> FALSE,
          paidAt |-> <<>>, stripeChargeId |-> "null",
          totalAmount |-> data.totalAmount, totalItems |-> data.totalItems,
          OrderItem |-> <<>>, OrderReceipt |-> <<>>])

(* order.create with the nested OrderItem.createMany: one atomic insert *)
OrderCreate(table, data) ==
  Append(table,
         [id |-> NextId(table),
          status |-> OrderDefaults.status,
          paid |-> OrderDefaults.paid,
          paidAt |-> OrderDefaults.paidAt,
          stripeChargeId |-> OrderDefaults.stripeChargeId,
          totalAmount |-> data.totalAmount,
          totalItems |-> data.totalItems,
          OrderItem |-> data.OrderItem,
          OrderReceipt |-> OrderDefaults.OrderReceipt])

(* nested OrderReceipt.create inside order.update *)
ReceiptCreate(receipts, receiptUrl) ==
  Append(receipts, [receiptUrl |-> receiptUrl])

(* where: {status}: an undefined status filters nothing *)
Where(table, status) ==
  LET Match(o) == status = "undefined" \/ o.status = status
  IN SeqFilter(Match, table)

(* findMany({skip, take, where}) *)
FindMany(table, skip, take, status) ==
  LET rows == Where(table, status)
      n == Len(rows)
      lo == IF skip < n THEN skip + 1 ELSE n + 1
      hi == IF skip + take < n THEN skip + take ELSE n
  IN SubSeq(rows, lo, hi)

(* the scalar columns findMany / update return (no relations included) *)
Scalars(o) ==
  [id |-> o.id, status |-> o.status, paid |-> o.paid, paidAt |-> o.paidAt,
   stripeChargeId |-> o.stripeChargeId, totalAmount |-> o.totalAmount,
   totalItems |-> o.totalItems]

(* include: {OrderItem: {select: {price, quantity, productId}}} *)
WithItems(o) ==
  [id |-> o.id, status |-> o.status, paid |-> o.paid, paidAt |-> o.paidAt,
   stripeChargeId |-> o.stripeChargeId, totalAmount |-> o.totalAmount,
   totalItems |-> o.totalItems, OrderItem |-> o.OrderItem]

(* --------------------------- create (26-89) ---------------------------- *)
ProductIdsOf(items) ==
  LET Id(item) == item.productId IN SeqMap(Id, items)

(* some products.find(...) of the request yields undefined *)
SomeMissing(items, products) ==
  \E i \in DOMAIN items : Find(products, items[i].productId) = Undefined

(* items.reduce((acc, orderItem) => price * orderItem.quantity, 0) *)
RECURSIVE ReduceAmount(_, _, _)
ReduceAmount(acc, items, products) ==
  IF items = <<>> THEN acc
  ELSE ReduceAmount(Find(products, Head(items).productId).price
                      * Head(items).quantity,
                    Tail(items), products)

TotalAmount(items, products) == ReduceAmount(0, items, products)

(* items.reduce((acc, orderItem) => acc + orderItem.quantity, 0) *)
RECURSIVE ReduceItems(_, _)
ReduceItems(acc, items) ==
  IF items = <<>> THEN acc
  ELSE ReduceItems(acc + Head(items).quantity, Tail(items))

(* mutant: the accumulator dropped, as a reduce that forgets `acc +` *)
TotalItemsNoAcc(items) == IF items = <<>> THEN 0 ELSE items[Len(items)].quantity

TotalItems(items) == ReduceItems(0, items)

(* mutant: every row priced with the first product of the reply *)
ItemRowsFirstPrice(items, products) ==
  [k \in DOMAIN items |->
     [productId |-> items[k].productId, quantity |-> items[k].quantity,
      price |-> Head(products).price]]

(* the createMany rows: productId, quantity and the validator's price *)
ItemRows(items, products) ==
  LET Row(item) ==
        [productId |-> item.productId, quantity |-> item.quantity,
         price |-> Find(products, item.productId).price]
  IN SeqMap(Row, items)

(* the returned items, each with the name found in the validator's reply *)
Enrich(order, products) ==
  LET Named(item) ==
        [productId |-> item.productId, quantity |-> item.quantity,
         price |-> item.price,
         name |-> Find(products, item.productId).name]
  IN [id |-> order.id, status |-> order.status, paid |-> order.paid,
      paidAt |-> order.paidAt, stripeChargeId |-> order.stripeChargeId,
      totalAmount |-> order.totalAmount, totalItems |-> order.totalItems,
      OrderItem |-> SeqMap(Named, order.OrderItem)]

(* catch (error) => throw new RpcException({status: BAD_REQUEST, message}) *)
CreateCatch(error) == RpcException(BAD_REQUEST, error.message)

(* what the try block throws, or NoError *)
CreateThrown(items, outcome, products) ==
  IF outcome = "error" THEN RemoteError
  ELSE IF SomeMissing(items, products) THEN TypeError("price")
  ELSE NoError

(* mutant: the order row written before the items are priced *)
CreateStoreEarly(table, items, thrown, products) ==
  IF thrown = RemoteError THEN table
  ELSE IF thrown # NoError
  THEN OrderCreate(table, [totalAmount |-> 0, totalItems |-> 0,
                           OrderItem |-> <<>>])
  ELSE OrderCreate(table,
                   [totalAmount |-> TotalAmount(items, products),
                    totalItems |-> TotalItems(items),
                    OrderItem |-> ItemRows(items, products)])

(* the table after the try block *)
CreateStore(table, items, thrown, products) ==
  IF thrown # NoError THEN table
  ELSE OrderCreate(table,
                   [totalAmount |-> TotalAmount(items, products),
                    totalItems |-> TotalItems(items),
                    OrderItem |-> ItemRows(items, products)])

create(createOrderDto, outcome) ==
  LET items == createOrderDto
      productIds == ProductIdsOf(items)
      products == ValidateProducts(catalog, productIds)
      thrown == CreateThrown(items, outcome, products)
  IN /\ orders' = CreateStore(orders, items, thrown, products)
     /\ quoted' = IF thrown # NoError THEN quoted ELSE Append(quoted, products)
     /\ last' = IF thrown # NoError
                THEN [op |-> "create", error |-> CreateCatch(thrown),
                      cause |-> thrown]
                ELSE [op |-> "create", error |-> NoError,
                      items |-> items, sent |-> productIds,
                      products |-> products,
                      result |-> Enrich(WithItems(orders'[Len(orders')]),
                                        products)]
     /\ UNCHANGED <<catalog, now, pending>>

(* --------------------------- findAll (91-116) -------------------------- *)
FindAllResult(table, dto) ==
  LET totalPages == Len(Where(table, dto.status))
      currentPage == dto.page
      perPage == dto.limit
  IN [data |-> SeqMap(Scalars, FindMany(table, (currentPage - 1) * perPage,
                                        perPage, dto.status)),
      meta |-> [total |-> totalPages, page |-> currentPage,
                lastPage |-> Ceil(totalPages, perPage)]]

OrderPaginationDtos ==
  [status : Statuses \cup {"undefined"}, page : 1..MaxPage, limit : 1..MaxLimit]

findAll(orderPaginationDto) ==
  /\ last' = [op |-> "findAll", error |-> NoError, dto |-> orderPaginationDto,
              result |-> FindAllResult(orders, orderPaginationDto)]
  /\ UNCHANGED <<orders, quoted, catalog, now, pending>>

(* --------------------------- findOne (118-153) ------------------------- *)
NotFound(id) == RpcException(NOT_FOUND, <<"Order with id ", id, " not found">>)

(* mutant: the validator asked before the order is looked up *)
FindOneThrownRemoteFirst(table, cat, id, outcome) ==
  IF outcome = "error" THEN RemoteError
  ELSE IF id \notin DOMAIN table THEN NotFound(id)
  ELSE IF SomeMissing(table[id].OrderItem,
                      ValidateProducts(cat, ProductIdsOf(table[id].OrderItem)))
  THEN TypeError("name")
  ELSE NoError

(* what findOne(id) throws, or NoError *)
FindOneThrown(table, cat, id, outcome) ==
  IF id \notin DOMAIN table THEN NotFound(id)
  ELSE IF outcome = "error" THEN RemoteError
  ELSE IF SomeMissing(table[id].OrderItem,
                      ValidateProducts(cat, ProductIdsOf(table[id].OrderItem)))
  THEN TypeError("name")
  ELSE NoError

FindOneResult(table, cat, id) ==
  Enrich(WithItems(table[id]),
         ValidateProducts(cat, ProductIdsOf(table[id].OrderItem)))

findOne(id, outcome) ==
  LET thrown == FindOneThrown(orders, catalog, id, outcome)
  IN /\ last' = IF thrown # NoError
                THEN [op |-> "findOne", error |-> thrown, id |-> id]
                ELSE [op |-> "findOne", error |-> NoError, id |-> id,
                      result |-> FindOneResult(orders, catalog, id)]
     /\ UNCHANGED <<orders, quoted, catalog, now, pending>>

(* ------------------------- changeStatus (155-168) ---------------------- *)
(* mutant: leaving PAID also clears the paid flag *)
StatusUpdateUnpays(o, status) ==
  [o EXCEPT !.status = status, !.paid = (@ /\ status = "PAID")]

(* mutant: a change to PAID also raises the paid flag *)
StatusUpdatePays(o, status) ==
  [o EXCEPT !.status = status, !.paid = (@ \/ status = "PAID")]

(* order.update({where: {id}, data: {status}}) *)
StatusUpdate(o, status) == [o EXCEPT !.status = status]

(* mutant: a transition table that lets nothing leave DELIVERED or CANCELLED *)
ChangeStatusStoreFinal(table, id, status, thrown) ==
  IF thrown # NoError THEN table
  ELSE IF table[id].status \in {"DELIVERED", "CANCELLED"} THEN table
  ELSE [table EXCEPT ![id] = [@ EXCEPT !.status = status]]

(* mutant: updateMany without the where clause *)
ChangeStatusStoreAll(table, id, status, thrown) ==
  IF thrown # NoError THEN table
  ELSE [i \in DOMAIN table |-> [table[i] EXCEPT !.status = status]]

ChangeStatusStore(table, id, status, thrown) ==
  IF thrown # NoError THEN table
  ELSE [table EXCEPT ![id] = StatusUpdate(table[id], status)]

changeStatus(changeOrderStatusDto, outcome) ==
  LET id == changeOrderStatusDto.id
      status == changeOrderStatusDto.status
      thrown == FindOneThrown(orders, catalog, id, outcome)
  IN /\ orders' = ChangeStatusStore(orders, id, status, thrown)
     /\ last' = IF thrown # NoError
                THEN [op |-> "changeStatus", error |-> thrown, id |-> id]
                ELSE [op |-> "changeStatus", error |-> NoError, id |-> id,
                      status |-> status, result |-> Scalars(orders'[id])]
     /\ UNCHANGED <<quoted, catalog, now, pending>>

(* --------------------- createPaymentSession (170-184) ------------------ *)
SessionRequest(order) ==
  LET Line(item) ==
        [name |-> item.name, price |-> item.price, quantity |-> item.quantity]
  IN [orderId |-> order.id, currency |-> "usd",
      items |-> SeqMap(Line, order.OrderItem)]

createPaymentSession(order, outcome) ==
  /\ last' = IF outcome = "error"
             THEN [op |-> "createPaymentSession", error |-> RemoteError,
                   id |-> order.id]
             ELSE [op |-> "createPaymentSession", error |-> NoError,
                   id |-> order.id,
                   reply |-> PaymentSession(SessionRequest(order)),
                   result |-> PaymentSession(SessionRequest(order))]
  /\ UNCHANGED <<orders, quoted, catalog, now, pending>>

(* --------------------------- paidOrder (186-207) ----------------------- *)
(* mutant: the charge reference left out of the update *)
PaidUpdateNoCharge(o, paidOrderDto, date) ==
  [o EXCEPT !.status = "PAID",
            !.paid = TRUE,
            !.paidAt = <<date>>,
            !.OrderReceipt = ReceiptCreate(@, paidOrderDto.receiptUrl)]

(* the data of the update: status, paid, paidAt, charge and the receipt *)
PaidUpdate(o, paidOrderDto, date) ==
  [o EXCEPT !.status = "PAID",
            !.paid = TRUE,
            !.paidAt = <<date>>,
            !.stripeChargeId = paidOrderDto.stripePaymentId,
            !.OrderReceipt = ReceiptCreate(@, paidOrderDto.receiptUrl)]

PaidOrderStore(table, paidOrderDto, date) ==
  IF paidOrderDto.orderId \notin DOMAIN table THEN table
  ELSE [table EXCEPT ![paidOrderDto.orderId] =
          PaidUpdate(table[paidOrderDto.orderId], paidOrderDto, date)]

paidOrder(paidOrderDto) ==
  LET id == paidOrderDto.orderId
  IN /\ Exists(id) => Len(orders[id].OrderReceipt) < MaxReceipts
     /\ orders' = PaidOrderStore(orders, paidOrderDto, now)
     /\ last' = IF ~Exists(id)
                THEN [op |-> "paidOrder", error |-> RecordNotFound,
                      dto |-> paidOrderDto]
                ELSE [op |-> "paidOrder", error |-> NoError,
                      dto |-> paidOrderDto, result |-> Scalars(orders'[id])]
     /\ UNCHANGED <<quoted, catalog, now, pending>>

(* --------------------------- the environment --------------------------- *)
(* the catalog service changes a price, adds or withdraws a product *)
CatalogSet(p, price) ==
  /\ catalog' = [q \in DOMAIN catalog \cup {p} |->
                   IF q = p THEN price ELSE catalog[q]]
  /\ catalog' # catalog
  /\ UNCHANGED <<orders, quoted, now, last, pending>>

CatalogRemove(p) ==
  /\ p \in DOMAIN catalog
  /\ catalog' = [q \in DOMAIN catalog \ {p} |-> catalog[q]]
  /\ UNCHANGED <<orders, quoted, now, last, pending>>

Tick ==
  /\ now < MaxClock
  /\ now' = now + 1
  /\ UNCHANGED <<orders, quoted, catalog, last, pending>>

(* an order as a caller holds it: a stored order with named items *)
HeldOrders ==
  {[id |-> orders[i].id,
    OrderItem |-> [k \in DOMAIN orders[i].OrderItem |->
                     [productId |-> orders[i].OrderItem[k].productId,
                      quantity |-> orders[i].OrderItem[k].quantity,
                      price |-> orders[i].OrderItem[k].price,
                      name |-> Names[orders[i].OrderItem[k].productId]]]] :
     i \in DOMAIN orders}

(* ---------------------------------------------------------------------- *)
Init ==
  /\ orders = <<>>
  /\ quoted = <<>>
  /\ catalog \in [Products -> Prices]
  /\ now = 0
  /\ last = [op |-> "init", error |-> NoError]
  /\ pending = {}

(* the carts of the lifecycle specification: the two-line example of the  *)
(* specification's section 8 and a one-line cart                           *)
Carts ==
  {<<[productId |-> "p1", quantity |-> 2], [productId |-> "p2", quantity |-> 1]>>,
   <<[productId |-> "p1", quantity |-> 1]>>}

(* the listings of the lifecycle specification: one row a page *)
FirstPages ==
  {d \in OrderPaginationDtos :
     d.limit = 1 /\ d.page <= 2 /\ d.status \in {"undefined", "PAID"}}

Environment ==
  \/ \E p \in Products, price \in Prices : CatalogSet(p, price)
  \/ \E p \in Products : CatalogRemove(p)
  \/ Tick

(* every operation of the coordinator, on a store of at most MaxOrders *)
Next ==
  \/ /\ \E dto \in Carts, outcome \in RemoteOutcomes : create(dto, outcome)
     /\ Len(orders') <= MaxOrders
  \/ \E dto \in FirstPages : findAll(dto)
  \/ \E id \in OrderIds, outcome \in RemoteOutcomes : findOne(id, outcome)
  \/ \E id \in OrderIds, s \in Statuses, outcome \in RemoteOutcomes :
       changeStatus([id |-> id, status |-> s], outcome)
  \/ \E order \in HeldOrders, outcome \in RemoteOutcomes :
       createPaymentSession(order, outcome)
  \/ \E dto \in PaidOrderDtos : paidOrder(dto)
  \/ Environment

Spec == Init /\ [][Next]_vars

(* creation alone, over every request of up to MaxItems line items *)
NextCreate ==
  \/ /\ \E dto \in CreateOrderDtos, outcome \in RemoteOutcomes :
          create(dto, outcome)
     /\ Len(orders') <= MaxOrders
  \/ \E p \in Products, price \in Prices : CatalogSet(p, price)
  \/ \E p \in Products : CatalogRemove(p)

SpecCreate == Init /\ [][NextCreate]_vars

(* listing: orders of one-line carts, their statuses changed at will *)
NextList ==
  \/ /\ create(<<[productId |-> "p1", quantity |-> 1]>>, "reply")
     /\ Len(orders') <= MaxListed
  \/ \E id \in DOMAIN orders, s \in Statuses :
       changeStatus([id |-> id, status |-> s], "reply")
  \/ \E dto \in OrderPaginationDtos : findAll(dto)

SpecList == Init /\ [][NextList]_vars

(* the confirmations of the smaller specifications: one charge *)
FirstCharges == {d \in PaidOrderDtos : d.stripePaymentId = "ch_1"}

(* several orders side by side: one-line carts, paid and moved at will *)
MaxFramed == 2

NextFrame ==
  \/ /\ create(<<[productId |-> "p1", quantity |-> 1]>>, "reply")
     /\ Len(orders') <= MaxFramed
  \/ \E id \in 1..(MaxFramed + 1), s \in Statuses, outcome \in RemoteOutcomes :
       changeStatus([id |-> id, status |-> s], outcome)
  \/ \E dto \in FirstCharges : paidOrder(dto)

SpecFrame == Init /\ [][NextFrame]_vars

(* ---------------- the methods step by step, call by call --------------- *)
(* A call that awaits a remote reply is held in `pending` from the send    *)
(* (firstValueFrom(this.client.send(...))) until the reply has come and    *)
(* the method has run on; other calls run in between.                      *)
NoReply == [outcome |-> "none"]

Awaiting(call) == call.reply = NoReply

(* the payload of the send a pending call made *)
SentIds(call) ==
  IF call.op = "create" THEN ProductIdsOf(call.dto)
  ELSE ProductIdsOf(call.order.OrderItem)

(* create, lines 29-32: the ids mapped and sent *)
createSend(createOrderDto) ==
  LET call == [op |-> "create", dto |-> createOrderDto, reply |-> NoReply]
  IN /\ call \notin pending
     /\ pending' = pending \cup {call}
     /\ UNCHANGED <<orders, quoted, catalog, now, last>>

(* findOne, lines 119-144: the row read, NOT_FOUND thrown or the ids sent; *)
(* changeStatus (line 158) starts the same way                             *)
findOneSend(op, id, status) ==
  IF id \notin DOMAIN orders
  THEN /\ last' = [op |-> op, error |-> NotFound(id), id |-> id]
       /\ UNCHANGED <<orders, quoted, catalog, now, pending>>
  ELSE LET call == [op |-> op, id |-> id, status |-> status,
                    order |-> WithItems(orders[id]), reply |-> NoReply]
       IN /\ call \notin pending
          /\ pending' = pending \cup {call}
          /\ UNCHANGED <<orders, quoted, catalog, now, last>>

(* createPaymentSession, lines 171-181: the session request sent *)
sessionSend(order) ==
  LET call == [op |-> "createPaymentSession", order |-> order,
               reply |-> NoReply]
  IN /\ call \notin pending
     /\ pending' = pending \cup {call}
     /\ UNCHANGED <<orders, quoted, catalog, now, last>>

(* the remote service answers a pending call, or its answer is an error *)
Reply(call, outcome) ==
  /\ call \in pending
  /\ Awaiting(call)
  /\ LET answer ==
           IF outcome = "error" THEN [outcome |-> "error"]
           ELSE IF call.op = "createPaymentSession"
           THEN [outcome |-> "reply",
                 session |-> PaymentSession(SessionRequest(call.order))]
           ELSE [outcome |-> "reply",
                 products |-> ValidateProducts(catalog, SentIds(call))]
     IN pending' = (pending \ {call}) \cup {[call EXCEPT !.reply = answer]}
  /\ UNCHANGED <<orders, quoted, catalog, now, last>>

(* what the rest of findOne throws once the reply is in, or NoError *)
EnrichThrown(order, reply) ==
  IF reply.outcome = "error" THEN RemoteError
  ELSE IF SomeMissing(order.OrderItem, reply.products) THEN TypeError("name")
  ELSE NoError

(* create, lines 35-88, once the reply is in *)
createResume(call) ==
  LET items == call.dto
      products == IF call.reply.outcome = "reply" THEN call.reply.products
                  ELSE <<>>
      thrown == CreateThrown(items, call.reply.outcome, products)
  IN /\ orders' = CreateStore(orders, items, thrown, products)
     /\ quoted' = IF thrown # NoError THEN quoted ELSE Append(quoted, products)
     /\ last' = IF thrown # NoError
                THEN [op |-> "create", error |-> CreateCatch(thrown),
                      cause |-> thrown]
                ELSE [op |-> "create", error |-> NoError,
                      items |-> items, sent |-> ProductIdsOf(items),
                      products |-> products,
                      result |-> Enrich(WithItems(orders'[Len(orders')]),
                                        products)]

(* mutant: the name read with ?.name, a missing product left unnamed *)
findOneResumeUnnamed(call) ==
  LET Named(item) ==
        [productId |-> item.productId, quantity |-> item.quantity,
         price |-> item.price,
         name |-> IF Find(call.reply.products, item.productId) = Undefined
                  THEN "undefined"
                  ELSE Find(call.reply.products, item.productId).name]
  IN /\ last' = IF call.reply.outcome = "error"
                THEN [op |-> "findOne", error |-> RemoteError, id |-> call.id]
                ELSE [op |-> "findOne", error |-> NoError, id |-> call.id,
                      result |-> [call.order EXCEPT
                                    !.OrderItem = [k \in DOMAIN @ |-> Named(@[k])]]]
     /\ UNCHANGED <<orders, quoted>>

(* findOne, lines 146-152, once the reply is in *)
findOneResume(call) ==
  LET thrown == EnrichThrown(call.order, call.reply)
  IN /\ last' = IF thrown # NoError
                THEN [op |-> "findOne", error |-> thrown, id |-> call.id]
                ELSE [op |-> "findOne", error |-> NoError, id |-> call.id,
                      result |-> Enrich(call.order, call.reply.products)]
     /\ UNCHANGED <<orders, quoted>>

(* changeStatus, lines 158-167, once its findOne has the reply *)
(* mutant: the update made whatever the findOne step threw *)
changeStatusResumeEager(call) ==
  LET thrown == EnrichThrown(call.order, call.reply)
  IN /\ orders' = ChangeStatusStore(orders, call.id, call.status, NoError)
     /\ last' = IF thrown # NoError
                THEN [op |-> "changeStatus", error |-> thrown, id |-> call.id]
                ELSE [op |-> "changeStatus", error |-> NoError,
                      id |-> call.id, status |-> call.status,
                      result |-> Scalars(orders'[call.id])]
     /\ UNCHANGED quoted

changeStatusResume(call) ==
  LET thrown == EnrichThrown(call.order, call.reply)
  IN /\ orders' = ChangeStatusStore(orders, call.id, call.status, thrown)
     /\ last' = IF thrown # NoError
                THEN [op |-> "changeStatus", error |-> thrown, id |-> call.id]
                ELSE [op |-> "changeStatus", error |-> NoError,
                      id |-> call.id, status |-> call.status,
                      result |-> Scalars(orders'[call.id])]
     /\ UNCHANGED quoted

(* mutant: the order marked PAID as soon as its session exists *)
sessionResumeMarksPaid(call) ==
  /\ last' = IF call.reply.outcome = "error"
             THEN [op |-> "createPaymentSession", error |-> RemoteError,
                   id |-> call.order.id]
             ELSE [op |-> "createPaymentSession", error |-> NoError,
                   id |-> call.order.id, reply |-> call.reply.session,
                   result |-> call.reply.session]
  /\ orders' = IF call.reply.outcome = "error" THEN orders
               ELSE [orders EXCEPT ![call.order.id].status = "PAID"]
  /\ UNCHANGED quoted

(* createPaymentSession, line 183, once the reply is in *)
sessionResume(call) ==
  /\ last' = IF call.reply.outcome = "error"
             THEN [op |-> "createPaymentSession", error |-> RemoteError,
                   id |-> call.order.id]
             ELSE [op |-> "createPaymentSession", error |-> NoError,
                   id |-> call.order.id, reply |-> call.reply.session,
                   result |-> call.reply.session]
  /\ UNCHANGED <<orders, quoted>>

(* the awaited promise has settled: the method runs to its end *)
Resume(call) ==
  /\ call \in pending
  /\ ~Awaiting(call)
  /\ pending' = pending \ {call}
  /\ CASE call.op = "create" -> createResume(call)
       [] call.op = "findOne" -> findOneResume(call)
       [] call.op = "changeStatus" -> changeStatusResume(call)
       [] call.op = "createPaymentSession" -> sessionResume(call)
  /\ UNCHANGED <<catalog, now>>

PendingCreates == {c \in pending : c.op = "create"}

(* the calls in flight, at most MaxPending at a time, other calls and the  *)
(* catalog running in between                                              *)
NextSteps ==
  \/ /\ Cardinality(pending) < MaxPending
     /\ \/ /\ Len(orders) + Cardinality(PendingCreates) < MaxOrders
           /\ \E dto \in Carts : createSend(dto)
        \/ \E id \in OrderIds : findOneSend("findOne", id, "undefined")
        \/ \E id \in OrderIds, s \in Statuses : findOneSend("changeStatus", id, s)
        \/ \E order \in HeldOrders : sessionSend(order)
  \/ \E call \in pending, outcome \in RemoteOutcomes : Reply(call, outcome)
  \/ \E call \in pending : Resume(call)
  \/ \E dto \in FirstCharges : paidOrder(dto)
  \/ \E p \in Products, price \in Prices : CatalogSet(p, price)
  \/ \E p \in Products : CatalogRemove(p)

SpecSteps == Init /\ [][NextSteps]_vars

(* a settled promise's continuation is run; nothing makes a remote answer *)
SpecStepsFair ==
  SpecSteps /\ WF_vars(\E call \in pending : Resume(call))

(* ====================================================================== *)
(*                            the properties                              *)
(* ====================================================================== *)
Created == last.op = "create" /\ last.error = NoError
CreateFailed == last.op = "create" /\ last.error # NoError

RECURSIVE SumAmount(_, _)
SumAmount(items, products) ==
  IF items = <<>> THEN 0
  ELSE Find(products, Head(items).productId).price * Head(items).quantity
       + SumAmount(Tail(items), products)

RECURSIVE SumQuantity(_)
SumQuantity(items) ==
  IF items = <<>> THEN 0 ELSE Head(items).quantity + SumQuantity(Tail(items))

(* C1: after a successful create, the returned and the stored totalAmount  *)
(* are the sum over all line items of validator price times quantity.      *)
C1_TotalAmountIsSum ==
  Created =>
    /\ last.result.totalAmount = SumAmount(last.items, last.products)
    /\ orders[last.result.id].totalAmount = SumAmount(last.items, last.products)

(* C2: after a successful create, the returned and the stored totalItems   *)
(* are the sum over all line items of the quantity.                        *)
C2_TotalItemsIsSum ==
  Created =>
    /\ last.result.totalItems = SumQuantity(last.items)
    /\ orders[last.result.id].totalItems = SumQuantity(last.items)

C2_Witness ==
  /\ Created
  /\ Len(last.items) = 2
  /\ last.items[1].quantity = 2
  /\ orders[last.result.id].totalItems = 3

(* C3: a create that fails leaves the store as it was and throws one       *)
(* RpcException of status BAD_REQUEST with the message of the error it     *)
(* caught; a create that writes a row has the validator's reply for every  *)
(* line item in hand.                                                      *)
C3_FailedCreateWritesNothing ==
  [][/\ (last'.op = "create" /\ last'.error # NoError) =>
          /\ orders' = orders
          /\ last'.error.kind = "RpcException"
          /\ last'.error.status = BAD_REQUEST
          /\ last'.error.message = last'.cause.message
          /\ last'.cause \in {RemoteError, TypeError("price")}
     /\ orders' # orders /\ last'.op = "create" =>
          /\ last'.error = NoError
          /\ \A i \in DOMAIN last'.items :
               Find(last'.products, last'.items[i].productId) # Undefined]_vars

C3_Witness ==
  /\ CreateFailed
  /\ last.cause = TypeError("price")
  /\ last.error.status = BAD_REQUEST
  /\ Len(orders) = 1

(* C4: paidOrder on a stored order sets status PAID, paid, a paidAt and    *)
(* the charge reference, adds exactly one receipt with the given           *)
(* receiptUrl, and leaves totalAmount, totalItems and the items alone.     *)
C4_PaidOrderEffect ==
  [][\A dto \in PaidOrderDtos :
       (paidOrder(dto) /\ dto.orderId \in DOMAIN orders) =>
         LET old == orders[dto.orderId]
             new == orders'[dto.orderId]
             n == Len(old.OrderReceipt)
         IN /\ new.status = "PAID"
            /\ new.paid = TRUE
            /\ new.paidAt # Null
            /\ new.stripeChargeId = dto.stripePaymentId
            /\ Len(new.OrderReceipt) = n + 1
            /\ SubSeq(new.OrderReceipt, 1, n) = old.OrderReceipt
            /\ new.OrderReceipt[n + 1].receiptUrl = dto.receiptUrl
            /\ new.totalAmount = old.totalAmount
            /\ new.totalItems = old.totalItems
            /\ new.OrderItem = old.OrderItem
            /\ last'.error = NoError]_vars

C4_Witness ==
  /\ last.op = "paidOrder"
  /\ last.error = NoError
  /\ last.dto.stripePaymentId = "ch_2"
  /\ orders[last.dto.orderId].status = "PAID"
  /\ orders[last.dto.orderId].OrderReceipt = <<[receiptUrl |-> "url_2"]>>
  /\ Len(orders[last.dto.orderId].OrderItem) = 2

(* C5: paid is false when an order is created, turns true only in a        *)
(* paidOrder for that order, and never turns false again.                  *)
C5_PaidMonotonic ==
  [][\A id \in DOMAIN orders' :
       IF id \in DOMAIN orders
       THEN /\ orders[id].paid => orders'[id].paid
            /\ (~orders[id].paid /\ orders'[id].paid) =>
                 (last'.op = "paidOrder" /\ last'.dto.orderId = id)
       ELSE ~orders'[id].paid]_vars

C5_Witness ==
  /\ last.op = "changeStatus"
  /\ last.error = NoError
  /\ last.status = "CANCELLED"
  /\ orders[last.id].paid
  /\ orders[last.id].status = "CANCELLED"

(* C6: once an order's paidAt is set, no later step changes it.            *)
C6_PaidAtSetOnce ==
  [][\A id \in DOMAIN orders :
       orders[id].paidAt # Null => orders'[id].paidAt = orders[id].paidAt]_vars

(* C7: every order owns at most one receipt.                               *)
C7_AtMostOneReceipt ==
  \A id \in DOMAIN orders : Len(orders[id].OrderReceipt) <= 1

(* C8: findOne and changeStatus for an id with no stored order throw the   *)
(* NOT_FOUND RpcException naming the id, and changeStatus then updates     *)
(* nothing.                                                                *)
C8_MissingOrderNotFound ==
  [][(last'.op \in {"findOne", "changeStatus"} /\ last'.id \notin DOMAIN orders)
       => /\ last'.error.kind = "RpcException"
          /\ last'.error.status = NOT_FOUND
          /\ last'.error.message = <<"Order with id ", last'.id, " not found">>
          /\ orders' = orders]_vars

C8_Witness ==
  /\ last.op = "changeStatus"
  /\ last.error.kind = "RpcException"
  /\ last.error.status = NOT_FOUND
  /\ last.id = 2
  /\ Len(orders) = 1

Min(a, b) == IF a < b THEN a ELSE b
Max(a, b) == IF a < b THEN b ELSE a

Matching(status) ==
  Cardinality({i \in DOMAIN orders :
                 status = "undefined" \/ orders[i].status = status})

(* C9: findAll returns meta.total = the number of matching orders, the     *)
(* requested page, lastPage = ceil(total / limit) and exactly              *)
(* max(0, min(limit, total - (page - 1) * limit)) rows.                    *)
C9_FindAllPage ==
  last.op = "findAll" =>
    LET total == Matching(last.dto.status)
        limit == last.dto.limit
        page == last.dto.page
        meta == last.result.meta
    IN /\ last.error = NoError
       /\ meta.total = total
       /\ meta.page = page
       /\ meta.lastPage * limit >= total
       /\ (meta.lastPage - 1) * limit < total \/ (total = 0 /\ meta.lastPage = 0)
       /\ Len(last.result.data) = Max(0, Min(limit, total - (page - 1) * limit))

C9_Witness ==
  /\ last.op = "findAll"
  /\ last.dto = [status |-> "PENDING", page |-> 3, limit |-> 2]
  /\ Matching("PENDING") = 3
  /\ Len(orders) = 3
  /\ last.result.data = <<>>
  /\ last.result.meta.lastPage = 2

(* C10: every stored item keeps the price the validator returned for its   *)
(* productId in the create that stored it, and no step changes a stored    *)
(* order's totalAmount, totalItems or items.                               *)
C10_PriceSnapshot ==
  /\ [](\A id \in DOMAIN orders : \A k \in DOMAIN orders[id].OrderItem :
          LET item == orders[id].OrderItem[k]
          IN /\ Find(quoted[id], item.productId) # Undefined
             /\ item.price = Find(quoted[id], item.productId).price)
  /\ [][\A id \in DOMAIN orders :
          /\ orders'[id].totalAmount = orders[id].totalAmount
          /\ orders'[id].totalItems = orders[id].totalItems
          /\ orders'[id].OrderItem = orders[id].OrderItem]_vars

C10_Witness ==
  /\ last.op = "findOne"
  /\ last.error = NoError
  /\ orders[last.id].paid
  /\ \E k \in DOMAIN orders[last.id].OrderItem :
       LET item == orders[last.id].OrderItem[k]
       IN /\ item.productId \in DOMAIN catalog
          /\ catalog[item.productId] # item.price
  /\ Len(orders[last.id].OrderItem) = 2
  /\ orders[last.id].OrderItem[1].price # orders[last.id].OrderItem[2].price

(* the productId and quantity of stored or requested line items *)
Lines(items) ==
  [k \in DOMAIN items |->
     [productId |-> items[k].productId, quantity |-> items[k].quantity]]

(* C11: in every state, also while calls are pending between their steps,  *)
(* each stored order has the whole batch of line items of its create       *)
(* request: the row appears together with them and they never change.      *)
C11_OrderNeverWithoutItems ==
  /\ [](\A id \in DOMAIN orders :
          /\ orders[id].OrderItem # <<>>
          /\ SumQuantity(orders[id].OrderItem) = orders[id].totalItems)
  /\ [][\A id \in DOMAIN orders' :
          IF id \in DOMAIN orders
          THEN orders'[id].OrderItem = orders[id].OrderItem
          ELSE /\ last'.op = "create"
               /\ last'.error = NoError
               /\ Lines(orders'[id].OrderItem) = last'.items]_vars

C11_Witness ==
  /\ Created
  /\ Len(orders) = 1
  /\ Len(orders[1].OrderItem) = 2
  /\ \E c \in pending : c.op = "changeStatus" /\ ~Awaiting(c)

(* the four columns of a payment confirmation *)
Payment(o) == <<o.paid, o.paidAt, o.stripeChargeId, o.OrderReceipt>>

(* C12: an order is paid exactly when its paidAt is set, its charge        *)
(* reference is set and it owns a receipt, and only a paidOrder for that   *)
(* order changes any of the four.                                          *)
C12_PaymentWrittenTogether ==
  /\ [](\A id \in DOMAIN orders :
          LET o == orders[id]
          IN /\ o.paid = (o.paidAt # Null)
             /\ o.paid = (o.stripeChargeId # "null")
             /\ o.paid = (o.OrderReceipt # <<>>))
  /\ [][\A id \in DOMAIN orders :
          Payment(orders'[id]) # Payment(orders[id]) =>
            (last'.op = "paidOrder" /\ last'.dto.orderId = id)]_vars

C12_Witness ==
  /\ last.op = "changeStatus"
  /\ last.error = NoError
  /\ last.status = "PENDING"
  /\ orders[last.id].status = "PENDING"
  /\ Payment(orders[last.id]) =
       <<TRUE, <<1>>, "ch_1", <<[receiptUrl |-> "url_1"]>> >>

SessionCalls(calls) == {c \in calls : c.op = "createPaymentSession"}

(* C13: no step of a createPaymentSession call (its send, the gateway's    *)
(* answer, its return or throw) changes the store, and a call the gateway  *)
(* answered returns that answer as it came.                                *)
C13_SessionLeavesStore ==
  [][SessionCalls(pending') # SessionCalls(pending) =>
       /\ orders' = orders
       /\ quoted' = quoted
       /\ \A c \in SessionCalls(pending) \ SessionCalls(pending') :
            \/ Awaiting(c) /\ last' = last
            \/ /\ c.reply.outcome = "reply"
               /\ last'.op = "createPaymentSession"
               /\ last'.error = NoError
               /\ last'.result = c.reply.session
            \/ /\ c.reply.outcome = "error"
               /\ last'.op = "createPaymentSession"
               /\ last'.error = RemoteError]_vars

C13_Witness ==
  /\ last.op = "createPaymentSession"
  /\ last.error = NoError
  /\ last.result.url = <<"checkout", 1>>
  /\ last.result.lines = 2
  /\ orders[1].status = "PENDING"
  /\ ~orders[1].paid

(* the reply holds no product of this id *)
Lacks(products, productId) ==
  \A j \in DOMAIN products : products[j].id # productId

(* C14: a findOne of a stored order whose validator call fails, or whose   *)
(* reply lacks a productId of the order, throws and returns nothing; an    *)
(* order it does return has a name on every item.                          *)
C14_FindOneAllOrNothing ==
  /\ [][\A c \in pending \ pending' :
          (c.op = "findOne" /\ ~Awaiting(c)) =>
            /\ last'.op = "findOne"
            /\ last'.id = c.id
            /\ IF \/ c.reply.outcome = "error"
                  \/ \E k \in DOMAIN c.order.OrderItem :
                       Lacks(c.reply.products, c.order.OrderItem[k].productId)
               THEN /\ last'.error # NoError
                    /\ "result" \notin DOMAIN last'
               ELSE last'.error = NoError]_vars
  /\ []((last.op = "findOne" /\ last.error = NoError) =>
          \A k \in DOMAIN last.result.OrderItem :
            last.result.OrderItem[k].name =
              Names[last.result.OrderItem[k].productId])

C14_Witness ==
  /\ last.op = "findOne"
  /\ last.error = TypeError("name")
  /\ Len(orders[last.id].OrderItem) = 2
  /\ orders[last.id].paid

(* C15: whatever a call of the coordinator throws carries a status code    *)
(* and a message.                                                          *)
C15_FailuresCarryStatus ==
  last.error # NoError =>
    /\ "status" \in DOMAIN last.error
    /\ "message" \in DOMAIN last.error

RemoteOps == {"create", "findOne", "changeStatus", "createPaymentSession"}

InFlight(op) == \E c \in pending : c.op = op

(* C16: a call that has sent its remote request comes to an end, with a    *)
(* failure if the remote service never replies.                            *)
C16_RemoteCallsEnd ==
  \A op \in RemoteOps : InFlight(op) ~> ~InFlight(op)

(* C17: whatever the order's status and paid flag, a changeStatus to any   *)
(* of the four statuses whose findOne step succeeds leaves the order with  *)
(* that status (and its paid flag as it was): no status is final.          *)
C17_AnyStatusFollowsAny ==
  [][\A id \in DOMAIN orders, s \in Statuses :
       ( /\ last'.op = "changeStatus"
         /\ last'.error = NoError
         /\ last'.id = id
         /\ last'.status = s ) =>
       /\ orders'[id].status = s
       /\ last'.result.status = s
       /\ orders'[id].paid = orders[id].paid]_vars

C17_Witness ==
  /\ last.op = "changeStatus"
  /\ last.error = NoError
  /\ last.status = "PENDING"
  /\ last.result.status = "PENDING"
  /\ orders[last.id].status = "PENDING"
  /\ orders[last.id].paid
  /\ Len(orders[last.id].OrderReceipt) = 2

(* C18: the request a create sends to the validator names each productId   *)
(* at most once, also when line items of the order repeat a productId.     *)
C18_SentIdsDistinct ==
  (last.op = "create" /\ last.error = NoError) =>
    /\ Distinct(last.sent) = last.sent
    /\ \A p \in Products :
         Cardinality({i \in DOMAIN last.sent : last.sent[i] = p}) <= 1

(* C19: changeStatus writes the status of the targeted order and nothing   *)
(* else: its paid flag, paidAt, charge reference, receipts, totals and     *)
(* items stay, and so does every field of every other order.               *)
C19_ChangeStatusFrame ==
  [][last'.op = "changeStatus" =>
       /\ DOMAIN orders' = DOMAIN orders
       /\ \A i \in DOMAIN orders :
            IF i = last'.id
            THEN [orders'[i] EXCEPT !.status = orders[i].status] = orders[i]
            ELSE orders'[i] = orders[i]
       /\ quoted' = quoted]_vars

C19_Witness ==
  /\ last.op = "changeStatus"
  /\ last.error = NoError
  /\ last.id = 2
  /\ Len(orders) = 2
  /\ orders[2].status = "DELIVERED"
  /\ orders[2].paid
  /\ Len(orders[2].OrderReceipt) = 1
  /\ orders[1].status = "CANCELLED"
  /\ ~orders[1].paid

(* C20: a changeStatus of a stored order whose validator call fails, or    *)
(* whose reply lacks a productId of the order, throws and leaves the       *)
(* order's status (and the whole store) as it was; the status is written   *)
(* only when the findOne step has returned.                                *)
C20_StatusAfterFindOne ==
  [][\A c \in pending \ pending' :
       (c.op = "changeStatus" /\ ~Awaiting(c)) =>
         /\ last'.op = "changeStatus"
         /\ last'.id = c.id
         /\ IF \/ c.reply.outcome = "error"
               \/ \E k \in DOMAIN c.order.OrderItem :
                    Lacks(c.reply.products, c.order.OrderItem[k].productId)
            THEN /\ last'.error # NoError
                 /\ orders'[c.id].status = orders[c.id].status
                 /\ orders' = orders
            ELSE /\ last'.error = NoError
                 /\ orders'[c.id].status = c.status]_vars

C20_Witness ==
  /\ last.op = "changeStatus"
  /\ last.error = RemoteError
  /\ last.id \in DOMAIN orders
  /\ orders[last.id].status = "PAID"
  /\ Len(orders[last.id].OrderItem) = 2
  /\ pending = {}

====
